---- MODULE Spec2Model ----
(***************************************************************************)
(* Model of ray_sklearn/skorch_approach/base.py: the driver estimator      *)
(* RayTrainNeuralNet, the worker estimator _WorkerRayTrainNeuralNet, the   *)
(* report callback _TrainReportCallback and the context manager            *)
(* ray_trainer_start_shutdown.                                             *)
(*                                                                         *)
(* External collaborators (torch numerics, the Ray Train worker pool) are  *)
(* abstracted: a trained component is identified by the worker that        *)
(* trained it and the number of training passes it has seen.               *)
(***************************************************************************)
EXTENDS Integers, Sequences, FiniteSets, TLC

\* ------------------------------------------------------------------ bounds
NumWorkers == 2
MaxEpochs == 2
MaxCalls == 1             \* calls made on one worker estimator used on its own
MaxKeys == 6              \* keys in one history record
MaxRows == 3              \* rows in one worker's dataset shard
MaxCols == 2              \* outputs of the module per row
MaxLen == 2               \* length of a partition handed to get_iterator
MaxGets == 3              \* get_iterator calls on one estimator

Ranks == 0 .. (NumWorkers - 1)
Labels == {"a", "b"}
NoLabel == "None"
NoEpochs == -1            \* the epochs=None argument
DriverId == NumWorkers    \* components initialised on the driver itself (not a rank)

\* ------------------------------------------------- state components, codec
\* A component (module, optimizer, criterion, history) is identified by the
\* process that built it and the number of training passes applied to it.
Comp(by, passes) == [by |-> by, passes |-> passes]

\* A slot holds a component in one of its representations:
\*   "none"  attribute not set        "obj"   live python object
\*   "bin"   bytes written by torch.save into a BytesIO
\*   "text"  json text written into a StringIO
Slot(fmt, c) == [fmt |-> fmt, data |-> c]
Unset == Slot("none", Comp(DriverId, 0))
Obj(c) == Slot("obj", c)

\* save_params: each f_* target receives the serialised component.
SaveBin(s) == Slot("bin", s.data)
SaveText(s) == Slot("text", s.data)
\* load_params: the component is rebuilt from its serialised form.
LoadBin(s) == Obj(s.data)
LoadText(s) == Obj(s.data)

EstState(m, o, c, h) == [module_ |-> m, optimizer_ |-> o, criterion_ |-> c, history |-> h]
NoState == EstState(Unset, Unset, Unset, Unset)

\* initialize_criterion / initialize_module / initialize_optimizer /
\* initialize_history on process `by`: fresh, untrained components.
FreshState(by) == EstState(Obj(Comp(by, 0)), Obj(Comp(by, 0)), Obj(Comp(by, 0)), Obj(Comp(by, 0)))

\* _get_history_io() followed by est.save_params(f_params=..., f_optimizer=...,
\* f_criterion=..., f_history=...) and {k: v.getvalue() ...}
Bundle(st) == [empty |-> FALSE,
               f_params |-> SaveBin(st.module_),
               f_optimizer |-> SaveBin(st.optimizer_),
               f_criterion |-> SaveBin(st.criterion_),
               f_history |-> SaveText(st.history)]
EmptyBundle == [empty |-> TRUE, f_params |-> Unset, f_optimizer |-> Unset,
                f_criterion |-> Unset, f_history |-> Unset]

\* ------------------------------------------------------------------ state
VARIABLES
    cfg,           \* driver configuration: warm_start, trainer, trainer__*, device
    dpc,           \* position of the driver inside the current call
    call,          \* the call in progress: op, arguments
    initialized_,  \* RayTrainNeuralNet.initialized_
    trainer_,      \* RayTrainNeuralNet.trainer_: unbound, the user's instance, or built
    live,          \* the Trainer bound to trainer_ is started
    tlog,          \* Trainer events (start / run / shutdown) of the call
    drv,           \* module_, optimizer_, criterion_, history of the driver
    notif,         \* on_train_begin / on_train_end notifications of the call
    outcome,       \* how the last call ended
    results,       \* per-rank return value of the worker closure
    sess,          \* per-rank: a Ray Train session is active in that process
    west,          \* per-rank worker estimator and closure position
    rsess,         \* report callback: a Ray Train session is active
    rcb,           \* report callback: keys_ignored, keys_ignored_
    hist,          \* keys of the last history record, in insertion order
    reported,      \* keys of the last train.report call, in argument order
    pin,           \* predict_proba: shape of each worker's probability output
    pret,          \* predict_proba: the results list, one entry per rank
    pout,          \* predict_proba: the array returned to the caller
    iterators,     \* worker estimator: iterator parameters, caches, last return
    derived        \* _get_worker_estimator: the objects, the driver, the result

\* the callback and the result assembly are explored on their own
pure == <<rsess, rcb, hist, reported, pin, pret, pout>>
main == <<cfg, dpc, call, initialized_, trainer_, live, tlog, drv, notif,
          outcome, results, sess, west>>
vars == <<main, pure, iterators, derived>>
drvVars == <<cfg, pure, iterators, derived, dpc, call, initialized_, trainer_, live, tlog, drv, notif,
             outcome>>

\* ------------------------------------------------------- worker estimator
\* Callbacks configured on the estimator: name and the _on_all_ranks mark.
\* callbacks_ is a list of (name, callback) tuples: the name is a str, the
\* callback an object that may carry _on_all_ranks
Str(n) == [ty |-> "str", val |-> n]
Callback(all) == [ty |-> "callback", on_all_ranks |-> all]
Named(name, cb) == <<Str(name), cb>>
UserCallbacks == << Named("print_log", Callback(FALSE)),
                    Named("sync_all", Callback(TRUE)) >>

\* getattr(v, "_on_all_ranks", False): a str has no such attribute
GetOnAllRanks(v) == IF v.ty = "callback" THEN v.on_all_ranks ELSE FALSE

\* [callback_tuple for callback_tuple in self.callbacks_
\*  if getattr(callback_tuple[0], "_on_all_ranks", False)]
\* (python's index 0 is the first element of the tuple)
RECURSIVE KeepAllRanks(_)
KeepAllRanks(cbs) ==
    IF cbs = <<>> THEN <<>>
    ELSE IF GetOnAllRanks(Head(cbs)[1]) THEN <<Head(cbs)>> \o KeepAllRanks(Tail(cbs))
         ELSE KeepAllRanks(Tail(cbs))

ReportCallback == Named("ray_train", Callback(FALSE))

\* _WorkerRayTrainNeuralNet.initialize_callbacks on world rank r
InitializeCallbacksFilterLast(r) ==
    IF r # 0 THEN KeepAllRanks(UserCallbacks \o <<ReportCallback>>)
    ELSE UserCallbacks \o <<ReportCallback>>
InitializeCallbacks(r) ==
    (IF r # 0 THEN KeepAllRanks(UserCallbacks) ELSE UserCallbacks)
        \o <<ReportCallback>>

\* number of callbacks of the list that report on epoch end
RECURSIVE CountReporters(_)
CountReporters(cbs) ==
    IF cbs = <<>> THEN 0
    ELSE (IF Head(cbs) = ReportCallback THEN 1 ELSE 0) + CountReporters(Tail(cbs))

\* _TrainReportCallback.on_epoch_end: no-op outside a session, else one
\* train.report call. Gives the number of calls made.
ReportUnconditionally(inSession) == 1
ReportOnEpochEnd(inSession) == IF inSession THEN 1 ELSE 0

\* notify("on_epoch_end"): every callback of callbacks_ is invoked once.
NotifyEpochEnd(cbs, inSession) == CountReporters(cbs) * ReportOnEpochEnd(inSession)

\* epochs = epochs if epochs is not None else self.max_epochs
ResolveEpochsIgnoringArgument(epochs, max_epochs) == max_epochs
ResolveEpochs(epochs, max_epochs) == IF epochs # NoEpochs THEN epochs ELSE max_epochs

\* one training pass on the worker of rank r: module, optimizer and criterion
\* advance by one pass
TrainPass(st) ==
    [st EXCEPT !.module_ = Obj(Comp(@.data.by, @.data.passes + 1)),
               !.optimizer_ = Obj(Comp(@.data.by, @.data.passes + 1)),
               !.criterion_ = Obj(Comp(@.data.by, @.data.passes + 1))]

\* NeuralNet.on_epoch_begin: history.new_epoch()
NewEpoch(st) == [st EXCEPT !.history = Obj(Comp(@.data.by, @.data.passes + 1))]

NoWorkerArgs == [epochs |-> NoEpochs, ty |-> NoLabel, vy |-> NoLabel]
IdleWorker == [pc |-> "idle", op |-> "none", warm_start |-> FALSE,
               initialized_ |-> FALSE, callbacks_ |-> <<>>, st |-> NoState,
               args |-> NoWorkerArgs,
               epochs |-> 0, ep |-> 0, calls |-> 0,
               nBegin |-> 0, nEnd |-> 0, reports |-> 0, exc |-> "none"]

Raise(w, e) == [w EXCEPT !.pc = "raised", !.exc = e]

\* _WorkerRayTrainNeuralNet.initialize: assert _is_in_train_session(), then
\* NeuralNet.initialize (callbacks, criterion, module wrapped in
\* DistributedDataParallel, optimizer, history).
WorkerInitializeUnguarded(w, r, inSession) ==
    [w EXCEPT !.initialized_ = TRUE, !.callbacks_ = InitializeCallbacks(r),
              !.st = FreshState(r)]
WorkerInitialize(w, r, inSession) ==
    IF ~inSession THEN Raise(w, "AssertionError")
    ELSE [w EXCEPT !.initialized_ = TRUE,
                   !.callbacks_ = InitializeCallbacks(r),
                   !.st = FreshState(r)]

\* _WorkerRayTrainNeuralNet.fit up to the call of partial_fit
WorkerFit(w, r, inSession) ==
    IF w.pc # "fit" THEN w
    ELSE LET w1 == IF ~w.warm_start \/ ~w.initialized_
                   THEN WorkerInitialize(w, r, inSession) ELSE w
         IN  IF w1.pc = "raised" THEN w1 ELSE [w1 EXCEPT !.pc = "partial_fit"]

\* _WorkerRayTrainNeuralNet.partial_fit up to the call of fit_loop
WorkerPartialFit(w, r, inSession) ==
    IF w.pc # "partial_fit" THEN w
    ELSE LET w1 == IF ~w.initialized_ THEN WorkerInitialize(w, r, inSession) ELSE w
         IN  IF w1.pc = "raised" THEN w1
             ELSE [w1 EXCEPT !.pc = "fit_loop", !.nBegin = @ + 1]

\* _WorkerRayTrainNeuralNet.fit_loop up to the first iteration of its loop
WorkerFitLoopEntry(w, inSession, max_epochs) ==
    IF w.pc # "fit_loop" THEN w
    ELSE IF ~inSession THEN Raise(w, "AssertionError")
    ELSE IF w.args.vy = NoLabel THEN Raise(w, "AttributeError")   \* dataset_valid is None
    ELSE IF w.args.ty # w.args.vy THEN Raise(w, "AssertionError")
    ELSE [w EXCEPT !.pc = "loop", !.ep = 0,
                   !.epochs = ResolveEpochs(w.args.epochs, max_epochs)]

\* a bare initialize() call
WorkerInitializeCall(w, r, inSession) ==
    IF w.pc # "init" THEN w
    ELSE LET w1 == WorkerInitialize(w, r, inSession)
         IN  IF w1.pc = "raised" THEN w1 ELSE [w1 EXCEPT !.pc = "done"]

\* a bare on_epoch_end call on the report callback
WorkerHookCall(w, inSession) ==
    IF w.pc # "hook" THEN w
    ELSE [w EXCEPT !.pc = "done", !.reports = @ + ReportOnEpochEnd(inSession)]

\* the estimator entered through fit, partial_fit or fit_loop runs up to the
\* head of the epoch loop (or raises); initialize and the hook run to their end
WEnter(r) ==
    /\ west[r].pc \in {"fit", "partial_fit", "fit_loop", "init", "hook"}
    /\ west' = [west EXCEPT ![r] =
                 WorkerHookCall(WorkerInitializeCall(
                   WorkerFitLoopEntry(
                     WorkerPartialFit(WorkerFit(west[r], r, sess[r]), r, sess[r]),
                     sess[r], MaxEpochs), r, sess[r]), sess[r])]
    /\ UNCHANGED <<drvVars, results, sess>>

\* for _ in range(epochs): notify('on_epoch_begin'); an estimator that was
\* never initialized has no callbacks_ to notify (AttributeError)
WEpochBegin(r) ==
    /\ west[r].pc = "loop"
    /\ west[r].ep < west[r].epochs
    /\ west' = [west EXCEPT ![r] = IF ~@.initialized_ THEN Raise(@, "AttributeError")
                                   ELSE [@ EXCEPT !.pc = "train", !.st = NewEpoch(@)]]
    /\ UNCHANGED <<drvVars, results, sess>>

\* run_single_epoch(dataset_train, training=True, step_fn=train_step)
WTrain(r) ==
    /\ west[r].pc = "train"
    /\ west' = [west EXCEPT ![r].pc = "valid", ![r].st = TrainPass(@)]
    /\ UNCHANGED <<drvVars, results, sess>>

\* run_single_epoch(dataset_valid, training=False, step_fn=validation_step);
\* dataset_valid is never None here: the label assertion dereferenced it
WValid(r) ==
    /\ west[r].pc = "valid"
    /\ west' = [west EXCEPT ![r].pc = "epoch_end"]
    /\ UNCHANGED <<drvVars, results, sess>>

\* notify("on_epoch_end"): the report callback runs, the loop advances
WEpochEnd(r) ==
    /\ west[r].pc = "epoch_end"
    /\ west' = [west EXCEPT ![r].pc = "loop", ![r].ep = @ + 1,
                            ![r].reports = @ + NotifyEpochEnd(west[r].callbacks_, sess[r])]
    /\ UNCHANGED <<drvVars, results, sess>>

ViaPartialFit(w) == w.op \in {"closure", "fit", "partial_fit"}

\* partial_fit: "except KeyboardInterrupt: pass" around the fit_loop call
SwallowsNothing(e) == FALSE
Swallows(e) == e = "KeyboardInterrupt"

\* the loop is exhausted: fit_loop returns to partial_fit (or to its caller)
WLoopExit(r) ==
    /\ west[r].pc = "loop"
    /\ west[r].ep >= west[r].epochs
    /\ west' = [west EXCEPT ![r].pc = IF ViaPartialFit(west[r]) THEN "train_end" ELSE "done"]
    /\ UNCHANGED <<drvVars, results, sess>>

\* partial_fit: notify('on_train_end'); return self (fit returns as well)
WTrainEnd(r) ==
    /\ west[r].pc = "train_end"
    /\ west' = [west EXCEPT ![r].pc = IF west[r].op = "closure" THEN "ret" ELSE "done",
                            ![r].nEnd = @ + 1]
    /\ UNCHANGED <<drvVars, results, sess>>

\* KeyboardInterrupt raised inside fit_loop: partial_fit catches it, a bare
\* fit_loop call lets it through
WInterrupt(r) ==
    /\ west[r].op # "closure"      \* the interrupt is delivered to the calling process
    /\ west[r].pc \in {"loop", "train", "valid", "epoch_end"}
    /\ west' = [west EXCEPT ![r] = IF ViaPartialFit(@) /\ Swallows("KeyboardInterrupt")
                                   THEN [@ EXCEPT !.pc = "train_end",
                                                  !.exc = "KeyboardInterrupt"]
                                   ELSE Raise(@, "KeyboardInterrupt")]
    /\ UNCHANGED <<drvVars, results, sess>>

\* any other uncaught fault inside the estimator or the closure; a worker
\* process whose closure raised is gone with its estimator
WFault(r) ==
    /\ west[r].pc \in {"fit", "partial_fit", "fit_loop", "loop", "train", "valid",
                       "epoch_end", "train_end", "ret", "pred"}
    /\ west' = [west EXCEPT ![r] =
                 IF west[r].op \in {"closure", "predict"}
                 THEN Raise([IdleWorker EXCEPT !.op = west[r].op], "Fault")
                 ELSE Raise(west[r], "Fault")]
    /\ UNCHANGED <<drvVars, results, sess>>

\* --------------------------------------------------------- driver estimator
\* RayTrainNeuralNet.initialize_trainer: the Trainer instance is reused when the
\* configured trainer is an instance and no trainer__* parameter is set, else a
\* new one is built with backend="torch"; a non-torch backend is rejected.
Unbound == [kind |-> "unbound"]
UserTrainer(backend) == [kind |-> "user", backend |-> backend]
BuiltTrainer(kwargs) == [kind |-> "built", backend |-> kwargs.backend,
                         num_workers |-> kwargs.num_workers, use_gpu |-> kwargs.use_gpu]

\* the values of the trainer__* parameters, when set
TrainerKeys == {"num_workers", "use_gpu", "logdir"}
KwNumWorkers == NumWorkers + 1
KwUseGpu == TRUE

\* kwargs["backend"] = "torch"; num_workers and use_gpu default to the
\* estimator's num_workers and to device != "cpu"
TrainerKwargs(c) ==
    [backend |-> "torch",
     num_workers |-> IF "num_workers" \in c.kw THEN KwNumWorkers ELSE NumWorkers,
     use_gpu |-> IF "use_gpu" \in c.kw THEN KwUseGpu ELSE c.device # "cpu"]

InitializeTrainerIgnoringKwargs(c) ==
    IF c.trainer = "user"
    THEN [ok |-> c.backend = "torch", trainer |-> UserTrainer(c.backend)]
    ELSE [ok |-> TRUE, trainer |-> BuiltTrainer(TrainerKwargs(c))]
InitializeTrainer(c) ==
    LET is_initialized == c.trainer = "user"
        trainer == IF c.kw # {} \/ ~is_initialized
                   THEN BuiltTrainer(TrainerKwargs(c))
                   ELSE UserTrainer(c.backend)
    IN  [ok |-> trainer.backend = "torch", trainer |-> trainer]

\* fit: "if not self.warm_start or not self.initialized_: self.initialize()"
\* partial_fit: "if not self.initialized_: self.initialize()"
NeedsInitialize(op, c, init) ==
    \/ op = "fit" /\ (~c.warm_start \/ ~init)
    \/ op \in {"fit", "partial_fit"} /\ ~init

\* fit_loop, lines deriving the two partitions: the labels of dataset_train
\* and dataset_valid
TrainLabel(a) == a.y
ValidLabel(a) ==
    IF a.xval = "none" THEN a.split                    \* get_split_datasets
    ELSE IF a.xval = "dataset" /\ a.yval = NoLabel THEN a.y
    ELSE a.yval

\* assert dataset_train.y == dataset_valid.y
LabelsUnchecked(a) == TRUE
LabelsAgree(a) == TrainLabel(a) = ValidLabel(a)

DriverViaPartialFit(op) == op \in {"fit", "partial_fit"}

NoArgs == [epochs |-> NoEpochs, y |-> NoLabel, xval |-> "none", yval |-> NoLabel,
           split |-> NoLabel]
NoCall == [op |-> "none", args |-> NoArgs, bundle |-> EmptyBundle]
EpochArgs == {NoEpochs, 0, 1}        \* epochs=None, or an explicit count
TrainLabels == {"a"}
FitArgs ==
    { a \in [epochs : EpochArgs, y : TrainLabels, xval : {"none", "dataset", "array"},
             yval : Labels \cup {NoLabel}, split : Labels \cup {NoLabel}] :
        IF a.xval = "none" THEN a.yval = NoLabel /\ a.split # NoLabel
        ELSE a.split = NoLabel }

Ended(op, kind, e) == [op |-> op, kind |-> kind, exc |-> e]

\* ray_trainer_start_shutdown.__exit__(exc_type, exc_value, traceback):
\* trainer.shutdown() whatever the arguments, and None is returned, so an
\* exception of the with block is not suppressed
ExitShutsDownOnSuccessOnly(e) == e = "none"
ExitShutsDown(e) == TRUE
ExitSuppressesAll(e) == TRUE
ExitSuppresses(e) == FALSE

\* the with block is left, normally (e = "none") or by exception e; at
\* shutdown the worker processes and their sessions end (a process that had
\* not returned is gone with its estimator)
Exit(log, e) ==
    IF ExitShutsDown(e)
    THEN /\ live' = FALSE
         /\ tlog' = Append(log, "shutdown")
         /\ sess' = [r \in Ranks |-> FALSE]
         /\ west' = [r \in Ranks |->
                      IF west[r].pc \in {"idle", "done", "raised"} THEN west[r]
                      ELSE [IdleWorker EXCEPT !.pc = "killed"]]
    ELSE /\ tlog' = log
         /\ UNCHANGED <<live, sess, west>>

\* the call leaves with exception e: partial_fit swallows a KeyboardInterrupt
\* coming out of fit_loop and goes on to on_train_end, anything else reaches
\* the caller
LeaveFitLoop(e) ==
    IF DriverViaPartialFit(call.op) /\ Swallows(e)
    THEN /\ dpc' = "pf_end"
         /\ outcome' = [outcome EXCEPT !.exc = e]
         /\ UNCHANGED call
    ELSE /\ dpc' = "idle"
         /\ outcome' = Ended(call.op, "raised", e)
         /\ call' = NoCall

\* exception e comes out of the with block
LeaveWithSalvage(e) ==
    /\ dpc' = IF call.op = "predict_proba" THEN "p_merge" ELSE "merge"
    /\ UNCHANGED <<call, outcome>>
LeaveWith(e) ==
    IF ExitSuppresses(e)
    THEN /\ dpc' = IF call.op = "predict_proba" THEN "p_merge" ELSE "merge"
         /\ UNCHANGED <<call, outcome>>
    ELSE LeaveFitLoop(e)

\* a worker estimator used on its own, in a process with or without a Ray
\* Train session (world rank r): a call of initialize, fit, partial_fit,
\* fit_loop, or of the report callback's on_epoch_end
WorkerArgs == [epochs : EpochArgs, ty : TrainLabels, vy : Labels \cup {NoLabel}]

WCall(r, op, a, inSession) ==
    /\ dpc = "idle" /\ outcome.op = "none"
    /\ cfg.trainer = "class"       \* a worker estimator has no trainer parameter
    /\ \A q \in Ranks \ {r} : west[q] = IdleWorker
    /\ west[r].pc \in {"idle", "done", "raised"}
    /\ west[r].calls < MaxCalls
    /\ sess' = [sess EXCEPT ![r] = inSession]
    /\ west' = [west EXCEPT ![r] =
                 [@ EXCEPT !.pc = CASE op = "initialize" -> "init"
                                    [] op = "on_epoch_end" -> "hook"
                                    [] OTHER -> op,
                           !.op = op, !.args = a, !.warm_start = cfg.warm_start,
                           !.calls = @ + 1, !.exc = "none",
                           !.nBegin = 0, !.nEnd = 0, !.reports = 0]]
    /\ UNCHANGED <<drvVars, results>>

\* a driver call begins: fit / partial_fit initialise on demand and notify
\* on_train_begin, then enter fit_loop; fit_loop and predict_proba start at once
DCall(op, a) ==
    /\ dpc = "idle"
    /\ \A r \in Ranks : west[r].calls = 0
    /\ LET it == InitializeTrainer(cfg)
           need == NeedsInitialize(op, cfg, initialized_)
       IN  IF need /\ ~it.ok
           THEN \* ValueError("Only torch backend is supported")
                /\ outcome' = Ended(op, "raised", "ValueError")
                /\ notif' = [begin |-> 0, end |-> 0]
                /\ UNCHANGED <<dpc, call, initialized_, trainer_, live>>
           ELSE /\ outcome' = Ended(op, "running", "none")
                /\ call' = [op |-> op, args |-> a, bundle |-> EmptyBundle]
                /\ dpc' = IF op = "predict_proba" THEN "predict" ELSE "fit_loop"
                /\ notif' = [begin |-> IF DriverViaPartialFit(op) THEN 1 ELSE 0, end |-> 0]
                /\ initialized_' = (initialized_ \/ need)
                /\ trainer_' = IF need THEN it.trainer ELSE trainer_
                /\ live' = IF need /\ it.trainer.kind = "built" THEN FALSE ELSE live
    /\ results' = [r \in Ranks |-> EmptyBundle]
    /\ west' = [r \in Ranks |-> IdleWorker]
    /\ tlog' = <<>>
    /\ UNCHANGED <<cfg, pure, iterators, derived, drv, sess>>

\* fit_loop: the label assertion, the worker estimator, then
\* "with ray_trainer_start_shutdown(self.trainer_):" enters: trainer.start()
DStart ==
    /\ dpc = "fit_loop"
    /\ IF ~LabelsAgree(call.args)
       THEN /\ LeaveFitLoop("AssertionError")
            /\ UNCHANGED <<live, tlog>>
       ELSE IF trainer_ = Unbound
       THEN /\ LeaveFitLoop("AttributeError")
            /\ UNCHANGED <<live, tlog>>
       ELSE /\ dpc' = "started"
            /\ live' = TRUE
            /\ tlog' = Append(tlog, "start")
            /\ call' = [call EXCEPT !.args = [NoArgs EXCEPT !.epochs = call.args.epochs,
                                                            !.y = call.args.y]]
            /\ UNCHANGED outcome
    /\ UNCHANGED <<cfg, pure, iterators, derived, initialized_, trainer_, drv, notif, results, sess, west>>

\* the worker estimator each worker receives: _get_worker_estimator() is a
\* clone (configuration only, nothing fitted) of the worker class
WorkerEstimator(c, a) ==
    [IdleWorker EXCEPT !.pc = "fit", !.op = "closure", !.warm_start = c.warm_start,
                       !.args = [epochs |-> a.epochs, ty |-> a.y, vy |-> a.y]]

\* self.trainer_.run(train_func, ...): every worker starts the closure
DRun ==
    /\ dpc = "started"
    /\ dpc' = "dispatch"
    /\ tlog' = Append(tlog, "run")
    /\ sess' = [r \in Ranks |-> TRUE]
    /\ west' = [r \in Ranks |-> WorkerEstimator(cfg, call.args)]
    /\ results' = [r \in Ranks |-> EmptyBundle]
    /\ UNCHANGED <<cfg, pure, iterators, derived, call, initialized_, trainer_, live, drv, notif, outcome>>

\* train_func, after est.fit: rank 0 returns the bundle, the others {}
ClosureResultOnEveryRank(r, st) == Bundle(st)
ClosureResult(r, st) == IF r = 0 THEN Bundle(st) ELSE EmptyBundle

WReturn(r) ==
    /\ west[r].pc = "ret"
    /\ west' = [west EXCEPT ![r].pc = "done"]
    /\ results' = [results EXCEPT ![r] = ClosureResult(r, west[r].st)]
    /\ UNCHANGED <<drvVars, sess>>

\* trainer.run returns once every closure has returned; the with block exits
DCollect ==
    /\ dpc = "dispatch"
    /\ \A r \in Ranks : west[r].pc = "done"
    /\ Exit(tlog, "none")
    /\ dpc' = "merge"
    /\ UNCHANGED <<cfg, pure, iterators, derived, call, initialized_, trainer_, drv, notif, outcome, results>>

\* a closure raised: trainer.run raises, the with block exits, the fault goes on
DAbort ==
    /\ dpc \in {"dispatch", "p_dispatch"}
    /\ \E r \in Ranks : west[r].pc = "raised"
    /\ Exit(Append(tlog, "run_raised"), "Fault")
    /\ LeaveWith("Fault")
    /\ UNCHANGED <<cfg, pure, iterators, derived, initialized_, trainer_, drv, notif, results>>

\* the key of the rank-0 result the merge reads first
MergeSource(res) == res[0]

\* self.initialize(initialize_ray=False); params = results[0];
\* self.module_ = params.pop("f_params"); self.load_params(f_optimizer=...,
\* f_criterion=..., f_history=...)
MergeWithoutHistory(res) ==
    LET params == res[0]
    IN  IF params.empty THEN FreshState(DriverId)
        ELSE EstState(params.f_params, LoadBin(params.f_optimizer),
                      LoadBin(params.f_criterion), Obj(Comp(DriverId, 0)))
Merge(res) ==
    LET params == MergeSource(res)
    IN  IF params.empty THEN FreshState(DriverId)      \* KeyError: 'f_params'
        ELSE EstState(params.f_params,
                      LoadBin(params.f_optimizer),
                      LoadBin(params.f_criterion),
                      LoadText(params.f_history))

DMerge ==
    /\ dpc = "merge"
    /\ drv' = Merge(results)
    /\ initialized_' = TRUE
    /\ IF MergeSource(results).empty
       THEN LeaveFitLoop("KeyError")
       ELSE IF DriverViaPartialFit(call.op)
       THEN dpc' = "pf_end" /\ UNCHANGED <<call, outcome>>
       ELSE /\ dpc' = "idle"
            /\ outcome' = Ended(call.op, "returned", "none")
            /\ call' = NoCall
    /\ UNCHANGED <<cfg, pure, iterators, derived, trainer_, live, tlog, notif, results, sess, west>>

\* partial_fit: self.notify('on_train_end'); return self (outcome.exc keeps
\* the exception partial_fit swallowed, if any)
DTrainEndUnnotified ==
    /\ dpc = "pf_end"
    /\ dpc' = "idle"
    /\ outcome' = Ended(call.op, "returned", outcome.exc)
    /\ call' = NoCall
    /\ UNCHANGED <<cfg, pure, iterators, derived, initialized_, trainer_, live, tlog, drv, notif, results, sess, west>>
DTrainEnd ==
    /\ dpc = "pf_end"
    /\ notif' = [notif EXCEPT !.end = @ + 1]
    /\ dpc' = "idle"
    /\ outcome' = Ended(call.op, "returned", outcome.exc)
    /\ call' = NoCall
    /\ UNCHANGED <<cfg, pure, iterators, derived, initialized_, trainer_, live, tlog, drv, results, sess, west>>

\* KeyboardInterrupt on the driver inside fit_loop: inside the with block the
\* trainer is shut down first
DInterrupt ==
    /\ dpc \in {"fit_loop", "started", "dispatch", "merge"}
    /\ IF dpc \in {"started", "dispatch"}
       THEN Exit(tlog, "KeyboardInterrupt") /\ LeaveWith("KeyboardInterrupt")
       ELSE UNCHANGED <<live, tlog, sess, west>> /\ LeaveFitLoop("KeyboardInterrupt")
    /\ UNCHANGED <<cfg, pure, iterators, derived, initialized_, trainer_, drv, notif, results>>

\* ------------------------------------------------------------ predict_proba
\* predict_proba up to the dispatch: the driver's state is saved (the module
\* is handed over as it is, not through save_params)
PredictBundle(st) == [empty |-> FALSE,
                      f_params |-> st.module_,
                      f_optimizer |-> SaveBin(st.optimizer_),
                      f_criterion |-> SaveBin(st.criterion_),
                      f_history |-> SaveText(st.history)]

\* save_params needs the optimizer, criterion and history to exist
CanSave(st) == st.optimizer_.fmt = "obj" /\ st.criterion_.fmt = "obj" /\ st.history.fmt = "obj"

DPredictStart ==
    /\ dpc = "predict"
    /\ IF ~CanSave(drv)
       THEN /\ LeaveFitLoop("NotInitializedError")
            /\ UNCHANGED <<live, tlog>>
       ELSE IF trainer_ = Unbound
       THEN /\ LeaveFitLoop("AttributeError")
            /\ UNCHANGED <<live, tlog>>
       ELSE /\ dpc' = "p_started"
            /\ live' = TRUE
            /\ tlog' = Append(tlog, "start")
            /\ call' = [call EXCEPT !.bundle = PredictBundle(drv)]
            /\ UNCHANGED outcome
    /\ UNCHANGED <<cfg, pure, iterators, derived, initialized_, trainer_, drv, notif, results, sess, west>>

\* self.trainer_.run(train_func, output, dataset=dataset.X)
DPredictRun ==
    /\ dpc = "p_started"
    /\ dpc' = "p_dispatch"
    /\ tlog' = Append(tlog, "run")
    /\ sess' = [r \in Ranks |-> TRUE]
    /\ west' = [r \in Ranks |-> [IdleWorker EXCEPT !.pc = "pred", !.op = "predict"]]
    /\ results' = [r \in Ranks |-> EmptyBundle]
    /\ UNCHANGED <<cfg, pure, iterators, derived, call, initialized_, trainer_, live, drv, notif, outcome>>

\* est = clone(self): the configuration of the driver, the driver's class,
\* none of the fitted attributes; initialize(initialize_ray=False) does not
\* bind trainer_
CloneTrainer == "unbound"

\* the closure of predict_proba on one worker: the bundle is wrapped with
\* _get_history_io (io.BytesIO(f_params) needs bytes), loaded into est, and
\* est.predict_proba is called: est is of the driver's class, so this is
\* RayTrainNeuralNet.predict_proba again, which reads est.trainer_
PredictClosure(w, b) ==
    IF b.f_params.fmt # "bin" THEN Raise(w, "TypeError")
    ELSE LET loaded == [w EXCEPT !.initialized_ = TRUE,
                                 !.st = EstState(LoadBin(b.f_params), LoadBin(b.f_optimizer),
                                                 LoadBin(b.f_criterion), LoadText(b.f_history))]
         IN  IF CloneTrainer = "unbound" THEN Raise(loaded, "AttributeError")
             ELSE [loaded EXCEPT !.pc = "done"]

WPredict(r) ==
    /\ west[r].pc = "pred"
    /\ west' = [west EXCEPT ![r] = PredictClosure(@, call.bundle)]
    /\ UNCHANGED <<drvVars, results, sess>>

\* KeyboardInterrupt on the driver inside predict_proba: nothing catches it
DPredictInterrupt ==
    /\ dpc \in {"predict", "p_started", "p_dispatch"}
    /\ IF dpc \in {"p_started", "p_dispatch"}
       THEN Exit(tlog, "KeyboardInterrupt") /\ LeaveWith("KeyboardInterrupt")
       ELSE UNCHANGED <<live, tlog, sess, west>> /\ LeaveFitLoop("KeyboardInterrupt")
    /\ UNCHANGED <<cfg, pure, iterators, derived, initialized_, trainer_, drv, notif, results>>

\* ---------------------------------------------------------- report callback
\* History keys are character sequences, compared as Python compares str.
Alphabet == << "_", "a", "b", "c", "d", "e", "f", "g", "h", "i", "j", "k", "l", "m",
               "n", "o", "p", "q", "r", "s", "t", "u", "v", "w", "x", "y", "z" >>
Ord(c) == CHOOSE i \in 1 .. Len(Alphabet) : Alphabet[i] = c

RECURSIVE StrLess(_, _)
StrLess(a, b) ==
    IF a = <<>> THEN b # <<>>
    ELSE IF b = <<>> THEN FALSE
    ELSE IF Head(a) = Head(b) THEN StrLess(Tail(a), Tail(b))
    ELSE Ord(Head(a)) < Ord(Head(b))

StartsWith(k, pre) == Len(k) >= Len(pre) /\ SubSeq(k, 1, Len(pre)) = pre
EndsWith(k, suf) == Len(k) >= Len(suf) /\ SubSeq(k, Len(k) - Len(suf) + 1, Len(k)) = suf

K_epoch == << "e", "p", "o", "c", "h" >>
K_dur == << "d", "u", "r" >>
K_batches == << "b", "a", "t", "c", "h", "e", "s" >>
K_loss == << "l", "o", "s", "s" >>
K_acc == << "a", "c", "c" >>
K_loss_best == << "l", "o", "s", "s", "_", "b", "e", "s", "t" >>
K_event_x == << "e", "v", "e", "n", "t", "_", "x" >>
K_event_x_best == << "e", "v", "e", "n", "t", "_", "x", "_", "b", "e", "s", "t" >>
P_event == << "e", "v", "e", "n", "t", "_" >>
S_best == << "_", "b", "e", "s", "t" >>

HistKeys == {K_epoch, K_dur, K_batches, K_loss, K_acc, K_loss_best, K_event_x,
             K_event_x_best}

Range(q) == {q[i] : i \in 1 .. Len(q)}

\* sorted(keys): the keys a record can hold, put in order once
RECURSIVE SortSet(_)
SortSet(S) ==
    IF S = {} THEN <<>>
    ELSE LET m == CHOOSE k \in S : \A o \in S \ {k} : StrLess(k, o)
         IN  <<m>> \o SortSet(S \ {m})
SortedHistKeys == SortSet(HistKeys)
Sorted(S) == SelectSeq(SortedHistKeys, LAMBDA k : k \in S)

\* skorch.callbacks.logging.filter_log_keys: drops 'epoch', the ignored keys,
\* the keys ending in '_best' and the keys starting with 'event_'
FilterLogKeys(keys, ignored) ==
    SelectSeq(keys, LAMBDA k : ~(\/ k = K_epoch
                                 \/ k \in ignored
                                 \/ EndsWith(k, S_best)
                                 \/ StartsWith(k, P_event)))

\* _TrainReportCallback._sorted_keys
SortedKeys(keys, ignored) ==
    (IF K_epoch \in keys /\ K_epoch \notin ignored THEN <<K_epoch>> ELSE <<>>)
    \o SelectSeq(FilterLogKeys(Sorted(keys), ignored), LAMBDA k : k # K_dur)
    \o SelectSeq(Sorted(keys), LAMBDA k : StartsWith(k, P_event) /\ k \notin ignored)
    \o (IF K_dur \in keys /\ K_dur \notin ignored THEN <<K_dur>> ELSE <<>>)

\* _TrainReportCallback.on_epoch_end: the comprehension walks hist.items() and
\* keeps the pairs whose key _sorted_keys returned
ReportedPairs(h, ignored) ==
    SelectSeq(h, LAMBDA k : k \in Range(SortedKeys(Range(h), ignored)))

\* _TrainReportCallback.initialize: keys_ignored_ (a str is wrapped in a
\* list, None is the empty list, "batches" is always added)
KeysIgnored(keys_ignored) ==
    (IF keys_ignored.kind = "str" THEN {keys_ignored.val}
     ELSE IF keys_ignored.kind = "list" THEN Range(keys_ignored.val)
     ELSE {}) \cup {K_batches}

IgnoredConfigs == { [kind |-> "none", val |-> <<>>],
                    [kind |-> "str", val |-> K_loss],
                    [kind |-> "list", val |-> <<K_dur, K_epoch>>] }

NotReported == [done |-> FALSE, keys |-> <<>>]
NewCallback(c) == [keys_ignored |-> c, ready |-> FALSE, keys_ignored_ |-> {}]

\* callback.initialize(): returns at once outside a session
RInitialize ==
    /\ ~rcb.ready /\ ~reported.done
    /\ rcb' = IF rsess
              THEN [rcb EXCEPT !.ready = TRUE,
                               !.keys_ignored_ = KeysIgnored(rcb.keys_ignored)]
              ELSE rcb
    /\ UNCHANGED <<main, iterators, derived, rsess, hist, reported, pin, pret, pout>>

\* history.record(k, value) on the current epoch's record
RRecord(k) ==
    /\ ~reported.done
    /\ rsess => rcb.ready
    /\ k \notin Range(hist)
    /\ Len(hist) < MaxKeys
    /\ hist' = Append(hist, k)
    /\ UNCHANGED <<main, iterators, derived, rsess, rcb, reported, pin, pret, pout>>

\* callback.on_epoch_end(net): train.report(**{...}) inside a session
ROnEpochEnd ==
    /\ ~reported.done
    /\ hist # <<>>
    /\ rsess => rcb.ready
    /\ reported' = IF rsess
                   THEN [done |-> TRUE, keys |-> ReportedPairs(hist, rcb.keys_ignored_)]
                   ELSE reported
    /\ UNCHANGED <<main, iterators, derived, rsess, rcb, hist, pin, pret, pout>>

ReportIdle ==
    /\ rsess = FALSE
    /\ rcb = NewCallback([kind |-> "none", val |-> <<>>])
    /\ hist = <<>>
    /\ reported = NotReported

ReportInit ==
    /\ rsess \in BOOLEAN
    /\ rcb \in {NewCallback(c) : c \in IgnoredConfigs}
    /\ hist = <<>>
    /\ reported = NotReported

\* ------------------------------------------------- predict_proba's assembly
\* An array is a sequence of rows; an element is named by the rank that
\* produced it and its position in that rank's output.
Array(r, rows, cols) ==
    [i \in 1 .. rows |-> [j \in 1 .. cols |-> <<r, i, j>>]]

RECURSIVE Ravel(_)
Ravel(a) == IF a = <<>> THEN <<>> ELSE Head(a) \o Ravel(Tail(a))

\* reshape(-1, 1) of a flat array
AsColumn(flat) == [i \in 1 .. Len(flat) |-> <<flat[i]>>]

RECURSIVE VStack(_)
VStack(arrays) ==
    IF arrays = <<>> THEN <<>> ELSE Head(arrays) \o VStack(Tail(arrays))

Pending == [done |-> FALSE, ret |-> <<>>]
NotAssembled == [done |-> FALSE, value |-> <<>>]

\* a worker's train_func returns {"ret": est.predict_proba(shard)}
PReturn(r) ==
    /\ ~pret[r].done
    /\ pret' = [pret EXCEPT ![r] = [done |-> TRUE,
                                    ret |-> Array(r, pin.rows[r], pin.cols)]]
    /\ UNCHANGED <<main, iterators, derived, rsess, rcb, hist, reported, pin, pout>>

\* np.vstack([result["ret"].ravel().reshape(-1, 1) for result in results])
PAssemble ==
    /\ \A r \in Ranks : pret[r].done
    /\ ~pout.done
    /\ pout' = [done |-> TRUE,
                value |-> VStack([i \in 1 .. NumWorkers |->
                                     AsColumn(Ravel(pret[i - 1].ret))])]
    /\ UNCHANGED <<main, iterators, derived, rsess, rcb, hist, reported, pin, pret>>

AssembleIdle ==
    /\ pin = [rows |-> [r \in Ranks |-> 0], cols |-> 1]
    /\ pret = [r \in Ranks |-> Pending]
    /\ pout = NotAssembled

AssembleInit ==
    /\ pin \in [rows : [Ranks -> 0 .. MaxRows], cols : 1 .. MaxCols]
    /\ pret = [r \in Ranks |-> Pending]
    /\ pout = NotAssembled

\* ------------------------------------------------- get_iterator's caching
\* a partition is known by its length; batch_size=-1 asks for one batch of
\* the whole partition
Partitions == 1 .. MaxLen
WholePartition == -1
DefaultBatch == MaxLen + 1            \* self.batch_size, when not -1
ParamBatch == MaxLen + 2              \* iterator_*__batch_size, when not -1
NoParam == [has |-> FALSE, batch_size |-> WholePartition]
Param(b) == [has |-> TRUE, batch_size |-> b]

NoIterator == [built |-> FALSE]
Iterator(training, dataset, batch_size) ==
    [built |-> TRUE, training |-> training, dataset |-> dataset, batch_size |-> batch_size]
NoReturn == [kind |-> "none"]

\* the value of iterator_train_ / iterator_valid_
Cached(it, training) == IF training THEN it.iterator_train_ ELSE it.iterator_valid_

\* kwargs = get_params_for('iterator_train' or 'iterator_valid'), completed
\* with batch_size; -1 becomes len(dataset)
BatchSizeUnresolved(it, training, dataset) ==
    LET kwargs == IF training THEN it.kw_train ELSE it.kw_valid
    IN  IF kwargs.has THEN kwargs.batch_size ELSE it.batch_size
BatchSize(it, training, dataset) ==
    LET kwargs == IF training THEN it.kw_train ELSE it.kw_valid
        b == IF kwargs.has THEN kwargs.batch_size ELSE it.batch_size
    IN  IF b = WholePartition THEN dataset ELSE b

\* _WorkerRayTrainNeuralNet.get_iterator(dataset, training)
GetIterator(dataset, training) ==
    /\ iterators.calls < MaxGets
    /\ LET initalized_iterator == Cached(iterators, training)
       IN  IF initalized_iterator # NoIterator
           THEN iterators' = [iterators EXCEPT
                                !.calls = @ + 1,
                                !.last = [training |-> training, dataset |-> dataset],
                                !.ret = [kind |-> "iter", of |-> initalized_iterator]]
           ELSE LET new == Iterator(training, dataset,
                                    BatchSize(iterators, training, dataset))
                IN  iterators' = [iterators EXCEPT
                                    !.calls = @ + 1,
                                    !.last = [training |-> training, dataset |-> dataset],
                                    !.iterator_train_ = IF training THEN new ELSE @,
                                    !.iterator_valid_ = IF training THEN @ ELSE new,
                                    !.ret = [kind |-> "object", of |-> new]]
    /\ UNCHANGED <<main, pure, derived>>

\* est.iterator_train_ = None / est.iterator_valid_ = None (the setters)
ResetIterator(training) ==
    /\ Cached(iterators, training) # NoIterator
    /\ iterators' = [iterators EXCEPT
                        !.iterator_train_ = IF training THEN NoIterator ELSE @,
                        !.iterator_valid_ = IF training THEN @ ELSE NoIterator,
                        !.ret = NoReturn]
    /\ UNCHANGED <<main, pure, derived>>

NewIterators(b, kt, kv) ==
    [batch_size |-> b, kw_train |-> kt, kw_valid |-> kv,
     iterator_train_ |-> NoIterator, iterator_valid_ |-> NoIterator,
     calls |-> 0, last |-> [training |-> FALSE, dataset |-> 1], ret |-> NoReturn]
IteratorsIdle == iterators = NewIterators(DefaultBatch, NoParam, NoParam)
IteratorsInit ==
    \E b \in {WholePartition, DefaultBatch} :
        \E kt, kv \in {NoParam, Param(WholePartition), Param(ParamBatch)} :
            iterators = NewIterators(b, kt, kv)

\* ------------------------------------------------- _get_worker_estimator
\* inspect.signature(...__init__).parameters of the two classes
\* (_WorkerRayTrainNeuralNet inherits NeuralNet.__init__)
WorkerSignature ==
    {"self", "module", "criterion", "optimizer", "lr", "max_epochs", "batch_size",
     "iterator_train", "iterator_valid", "dataset", "train_split", "callbacks",
     "predict_nonlinearity", "warm_start", "verbose", "device", "kwargs"}
DriverSignature ==
    WorkerSignature \cup {"num_workers", "worker_dataset", "trainer"}
ConstructorParams == DriverSignature \ {"self", "kwargs"}
FittedAttributes == {"module_", "optimizer_", "criterion_", "history", "trainer_"}

\* objects live in a heap, by reference
SelfRef == "self"
EstRef == "est"
Object(class, dict, kw) == [class |-> class, dict |-> dict, kw |-> kw]
GetAttr(obj, n) == IF n \in DOMAIN obj.dict THEN obj.dict[n] ELSE "AttributeError"

\* sklearn.base.clone(obj): a new object of obj's class constructed from
\* obj.get_params(): the constructor parameters and the **kwargs parameters,
\* none of the fitted attributes
CloneShared(heap, ref) == [heap |-> heap, ref |-> ref]
Clone(heap, ref) ==
    LET obj == heap[ref]
        new == Object(obj.class,
                      [n \in ConstructorParams \cup obj.kw \cup {"initialized_"} |->
                          IF n = "initialized_" THEN "False" ELSE obj.dict[n]],
                      obj.kw)
    IN  [heap |-> (EstRef :> new) @@ heap, ref |-> EstRef]

DelAttrs(heap, ref, names) ==
    [heap EXCEPT ![ref].dict = [n \in (DOMAIN @) \ names |-> @[n]]]
SetClass(heap, ref, class) == [heap EXCEPT ![ref].class = class]
SetParams(heap, ref, n, v) ==
    [heap EXCEPT ![ref].dict = [m \in (DOMAIN @) \cup {n} |-> IF m = n THEN v ELSE @[m]]]

\* RayTrainNeuralNet._get_worker_estimator
GetWorkerEstimator(heap, self) ==
    LET c == Clone(heap, self)
        attributes_to_remove == DriverSignature \ WorkerSignature
        h1 == DelAttrs(c.heap, c.ref, attributes_to_remove)
        h2 == SetClass(h1, c.ref, "_WorkerRayTrainNeuralNet")
        h3 == SetParams(h2, c.ref, "dataset", GetAttr(h2[self], "worker_dataset"))
    IN  [heap |-> h3, ref |-> c.ref]

DGetWorkerEstimator ==
    /\ derived.est = "none"
    /\ LET g == GetWorkerEstimator(derived.heap, SelfRef)
       IN  derived' = [derived EXCEPT !.heap = g.heap, !.est = g.ref]
    /\ UNCHANGED <<main, pure, iterators>>

\* a driver estimator: its parameters, its trainer__* / optimizer__*
\* parameters, and once fitted its fitted attributes
Driver(params, kw, fitted) ==
    Object("RayTrainNeuralNet",
           [n \in ConstructorParams \cup kw \cup {"initialized_"}
                  \cup (IF fitted THEN FittedAttributes ELSE {}) |->
               IF n \in DOMAIN params THEN params[n]
               ELSE IF n = "initialized_" THEN (IF fitted THEN "True" ELSE "False")
               ELSE n],
           kw)
NewDerived(d) == [heap |-> (SelfRef :> d), before |-> d, est |-> "none"]
DriverParams ==
    [dataset : {"dataset_factory", "UserDataset"},
     worker_dataset : {"SkorchDataset", "UserWorkerDataset"},
     warm_start : {"True", "False"},
     trainer : {"Trainer", "instance"}]
DerivedIdle ==
    derived = NewDerived(Driver([dataset |-> "dataset_factory",
                                 worker_dataset |-> "SkorchDataset",
                                 warm_start |-> "False", trainer |-> "Trainer"],
                                {}, FALSE))
DerivedInit ==
    \E params \in DriverParams :
        \E kw \in SUBSET {"trainer__logdir", "optimizer__momentum"} :
            \E fitted \in BOOLEAN :
                derived = NewDerived(Driver(params, kw, fitted))

PureInit == ReportIdle /\ AssembleIdle /\ IteratorsIdle /\ DerivedIdle

\* ------------------------------------------------------------ specification
\* trainer is the Trainer class or a user-built instance (whose backend may
\* be anything); kw: the trainer__* parameters that are set
AllCfgs == { c \in [warm_start : BOOLEAN, trainer : {"class", "user"},
                    backend : {"torch", "other"}, kw : SUBSET TrainerKeys,
                    device : {"cpu", "cuda"}] :
               c.trainer = "class" => c.backend = "torch" }
\* the configurations the dispatch protocol is explored under
Cfgs == { c \in AllCfgs : /\ c.kw = {} /\ c.device = "cpu"
                          /\ c.backend = "other" => ~c.warm_start }

MainInit(cfgs) ==
    /\ cfg \in cfgs
    /\ dpc = "idle"
    /\ call = NoCall
    /\ initialized_ = FALSE
    /\ trainer_ = Unbound
    /\ live = FALSE
    /\ tlog = <<>>
    /\ drv = NoState
    /\ notif = [begin |-> 0, end |-> 0]
    /\ outcome = Ended("none", "none", "none")
    /\ results = [r \in Ranks |-> EmptyBundle]
    /\ sess = [r \in Ranks |-> FALSE]
    /\ west = [r \in Ranks |-> IdleWorker]

Init == MainInit(Cfgs) /\ PureInit

DriverCall ==
    \/ \E op \in {"fit", "partial_fit", "fit_loop"} : \E a \in FitArgs : DCall(op, a)
    \/ DCall("predict_proba", NoArgs)

WorkerCall ==
    \E r \in Ranks : \E inSession \in BOOLEAN :
        \/ \E op \in {"fit", "partial_fit", "fit_loop"} : \E a \in WorkerArgs :
              WCall(r, op, a, inSession)
        \/ \E op \in {"initialize", "on_epoch_end"} : WCall(r, op, NoWorkerArgs, inSession)

Worker(r) ==
    \/ WEnter(r)
    \/ WInterrupt(r)
    \/ WEpochBegin(r)
    \/ WTrain(r)
    \/ WValid(r)
    \/ WEpochEnd(r)
    \/ WLoopExit(r)
    \/ WTrainEnd(r)
    \/ WReturn(r)
    \/ WPredict(r)
    \/ WFault(r)

Next ==
    \/ DriverCall
    \/ WorkerCall
    \/ DStart
    \/ DRun
    \/ DCollect
    \/ DAbort
    \/ DMerge
    \/ DTrainEnd
    \/ DInterrupt
    \/ DPredictStart
    \/ DPredictRun
    \/ DPredictInterrupt
    \/ \E r \in Ranks : Worker(r)

Spec == Init /\ [][Next]_vars

\* the report callback on one history record
IdleCfg == CHOOSE c \in Cfgs : c.trainer = "class" /\ c.backend = "torch" /\ ~c.warm_start
ReportNext ==
    \/ RInitialize
    \/ \E k \in HistKeys : RRecord(k)
    \/ ROnEpochEnd
InitReport == MainInit({IdleCfg}) /\ ReportInit /\ AssembleIdle /\ IteratorsIdle /\ DerivedIdle
SpecReport == InitReport /\ [][ReportNext]_vars

\* predict_proba's assembly of the workers' results
AssembleNext ==
    \/ \E r \in Ranks : PReturn(r)
    \/ PAssemble
InitAssemble == MainInit({IdleCfg}) /\ ReportIdle /\ AssembleInit /\ IteratorsIdle /\ DerivedIdle
SpecAssemble == InitAssemble /\ [][AssembleNext]_vars

\* the merge step of fit_loop applied to what trainer.run returned: the
\* rank-0 entry is a well-formed bundle or lacks its keys; the driver may hold
\* the state of an earlier fit
Trained(r, p) == EstState(Obj(Comp(r, p)), Obj(Comp(r, p)), Obj(Comp(r, p)), Obj(Comp(r, p)))
RunResults == {EmptyBundle} \cup {Bundle(Trained(0, p)) : p \in 0 .. MaxEpochs}
EarlierStates == {NoState} \cup {Merge([r \in Ranks |-> Bundle(Trained(0, p))]) : p \in 0 .. MaxEpochs}
InitMerge ==
    /\ cfg \in {c \in Cfgs : InitializeTrainer(c).ok}
    /\ dpc = "merge"
    /\ \E op \in {"fit", "partial_fit", "fit_loop"} :
          /\ call = [op |-> op, args |-> NoArgs, bundle |-> EmptyBundle]
          /\ outcome = Ended(op, "running", "none")
          /\ notif = [begin |-> IF DriverViaPartialFit(op) THEN 1 ELSE 0, end |-> 0]
    /\ initialized_ = TRUE
    /\ trainer_ = InitializeTrainer(cfg).trainer
    /\ live = FALSE
    /\ tlog = <<"start", "run", "shutdown">>
    /\ drv \in EarlierStates
    /\ \E b \in RunResults : results = [r \in Ranks |-> IF r = 0 THEN b ELSE EmptyBundle]
    /\ sess = [r \in Ranks |-> FALSE]
    /\ west = [r \in Ranks |-> IdleWorker]
    /\ PureInit
MergeNext ==
    \/ DMerge
    \/ DTrainEnd
SpecMerge == InitMerge /\ [][MergeNext]_vars

\* the resolution of the Trainer by initialize(), over every configuration:
\* driver calls up to the start of the Trainer, no dispatch
ResolveNext ==
    \/ \E op \in {"fit", "partial_fit", "fit_loop"} : \E a \in FitArgs : DCall(op, a)
    \/ DStart
    \/ DInterrupt
    \/ DTrainEnd
InitResolve == MainInit(AllCfgs) /\ PureInit
SpecResolve == InitResolve /\ [][ResolveNext]_vars

\* get_iterator calls and resets of the cached attributes on one worker
\* estimator
IteratorNext ==
    \/ \E d \in Partitions : \E training \in BOOLEAN : GetIterator(d, training)
    \/ \E training \in BOOLEAN : ResetIterator(training)
InitIterator == MainInit({IdleCfg}) /\ ReportIdle /\ AssembleIdle /\ IteratorsInit /\ DerivedIdle
SpecIterator == InitIterator /\ [][IteratorNext]_vars

\* _get_worker_estimator applied to a driver estimator
DeriveNext == DGetWorkerEstimator
InitDerive ==
    MainInit({IdleCfg}) /\ ReportIdle /\ AssembleIdle /\ IteratorsIdle /\ DerivedInit
SpecDerive == InitDerive /\ [][DeriveNext]_vars

\* ------------------------------------------------------------------ claims
Has(log, e) == \E i \in 1 .. Len(log) : log[i] = e
Count(log, e) == Cardinality({i \in 1 .. Len(log) : log[i] = e})
FitOps == {"fit", "partial_fit", "fit_loop"}
\* the last driver call was a fit that went through dispatch and merge
FitSucceeded == dpc = "idle" /\ outcome.op \in FitOps
                /\ outcome.kind = "returned" /\ outcome.exc = "none"

\* C1: when trainer.run raises because a worker closure raised, the Trainer is
\* shut down exactly once in that dispatch, the call ends at once, and it
\* ends by raising that fault to the caller (never by returning).
C1_FaultShutsDownOnceAndReraises ==
    Has(tlog, "run_raised") =>
        /\ dpc = "idle"
        /\ Count(tlog, "shutdown") = 1
        /\ ~live
        /\ outcome.kind = "raised" /\ outcome.exc = "Fault"

\* C1 witness: a fit_loop dispatch in which a worker raised after rank 0 had
\* already returned
C1_Witness ==
    /\ outcome = Ended("fit_loop", "raised", "Fault")
    /\ tlog = <<"start", "run", "run_raised", "shutdown">>
    /\ west[0].pc = "done"

\* C2: every dispatch lies between a start and its shutdown, starts and
\* shutdowns alternate, and outside the with block (in particular whenever a
\* call has returned or raised) the Trainer is not started.
Bracketed(log) ==
    log \in { <<>>, <<"start">>, <<"start", "run">>, <<"start", "shutdown">>,
              <<"start", "run", "shutdown">>,
              <<"start", "run", "run_raised", "shutdown">> }
C2_StartStopBracketing ==
    /\ Bracketed(tlog)
    /\ live <=> (tlog # <<>> /\ tlog[Len(tlog)] # "shutdown")
    /\ dpc \in {"dispatch", "p_dispatch"} => live /\ tlog[Len(tlog)] = "run"
    /\ dpc \in {"idle", "fit_loop", "predict", "merge", "pf_end"} =>
           ~live /\ Count(tlog, "start") = Count(tlog, "shutdown")
    /\ \A r \in Ranks :
           (west[r].op \in {"closure", "predict"}
            /\ west[r].pc \notin {"idle", "done", "raised", "killed"}) => live

\* C2 witness: a predict_proba dispatch in flight, after an earlier fit
\* dispatch had been started and shut down
C2_Witness ==
    /\ dpc = "p_dispatch" /\ live
    /\ drv.module_.fmt = "bin"

\* C3 (as amended): after a successful driver fit the optimizer, criterion and
\* history of the driver equal those of the rank-0 worker estimator at the end
\* of its training, and module_ holds rank 0's serialised parameters (the
\* bytes of f_params, not a module rebuilt from them), from which rank 0's
\* module state is recovered without loss.
C3_FitRoundTrip ==
    FitSucceeded =>
        /\ drv.optimizer_ = west[0].st.optimizer_
        /\ drv.criterion_ = west[0].st.criterion_
        /\ drv.history = west[0].st.history
        /\ drv.module_ = SaveBin(west[0].st.module_)
        /\ LoadBin(drv.module_) = west[0].st.module_

\* C3 witness: a fit that trained max_epochs epochs and was merged
C3_Witness ==
    /\ FitSucceeded /\ outcome.op = "fit"
    /\ west[0].pc = "done"
    /\ west[0].st.module_.data.passes = MaxEpochs

\* C3 as stated: the driver's module, optimizer, criterion and history equal
\* the rank-0 worker estimator's after a successful fit.
C3_Original ==
    FitSucceeded => drv = west[0].st

\* C4: a closure that has returned produced a non-empty bundle iff its rank is
\* 0 (rank 0's bundle being its own estimator's state), so a completed run
\* holds exactly one bundle, and what the driver merges stems from rank 0.
C4_SingleWriter ==
    /\ \A r \in Ranks :
          /\ (r # 0) => results[r] = EmptyBundle
          /\ (west[r].op = "closure" /\ west[r].pc = "done" /\ r = 0) =>
                results[r] = [empty |-> FALSE,
                              f_params |-> Slot("bin", west[r].st.module_.data),
                              f_optimizer |-> Slot("bin", west[r].st.optimizer_.data),
                              f_criterion |-> Slot("bin", west[r].st.criterion_.data),
                              f_history |-> Slot("text", west[r].st.history.data)]
    /\ dpc = "merge" => Cardinality({r \in Ranks : ~results[r].empty}) = 1
    /\ FitSucceeded =>
          /\ drv.module_.data.by = 0 /\ drv.optimizer_.data.by = 0
          /\ drv.criterion_.data.by = 0 /\ drv.history.data.by = 0

\* C4 witness: a merged fit_loop run in which the other ranks returned {}
C4_Witness ==
    /\ FitSucceeded /\ outcome.op = "fit_loop"
    /\ ~results[0].empty
    /\ \A r \in Ranks \ {0} : west[r].pc = "done" /\ results[r].empty
    /\ drv.module_.data.by = 0

\* C5: from a driver fit_loop whose train and validation label sources differ,
\* no step starts the Trainer, dispatches, touches a worker or merges, and the
\* step that evaluates the assertion ends the call with AssertionError (the
\* only other step is a KeyboardInterrupt arriving first).
C5_LabelMismatchFailsBeforeDispatch ==
    [][ (dpc = "fit_loop" /\ TrainLabel(call.args) # ValidLabel(call.args)) =>
          /\ tlog' = tlog /\ live' = live /\ west' = west /\ sess' = sess
          /\ drv' = drv /\ results' = results
          /\ dpc' \in {"idle", "pf_end"}
          /\ \/ outcome'.exc = "KeyboardInterrupt"
             \/ outcome' = Ended(call.op, "raised", "AssertionError") ]_vars

\* C5 witness: a fit call that ended on the label assertion, nothing dispatched
C5_Witness ==
    /\ outcome = Ended("fit", "raised", "AssertionError")
    /\ dpc = "idle" /\ tlog = <<>> /\ ~live
    /\ \A r \in Ranks : west[r] = IdleWorker

\* C6: a KeyboardInterrupt raised inside fit_loop under partial_fit (driver or
\* worker estimator, through fit or partial_fit) is not raised to the caller:
\* the call returns, the estimator is still initialized, on_train_begin has
\* fired once before the loop and on_train_end fires once after it.
C6_CancellationSwallowed ==
    /\ (outcome.exc = "KeyboardInterrupt" /\ outcome.op \in {"fit", "partial_fit"}) =>
          /\ initialized_
          /\ dpc \in {"pf_end", "idle"}
          /\ dpc = "pf_end" => notif = [begin |-> 1, end |-> 0]
          /\ dpc = "idle" => outcome.kind = "returned" /\ notif = [begin |-> 1, end |-> 1]
    /\ \A r \in Ranks :
          (west[r].exc = "KeyboardInterrupt" /\ west[r].op \in {"fit", "partial_fit"}) =>
              /\ west[r].initialized_
              /\ west[r].pc \in {"train_end", "done"}
              /\ west[r].pc = "train_end" => west[r].nBegin = 1 /\ west[r].nEnd = 0
              /\ west[r].pc = "done" => west[r].nBegin = 1 /\ west[r].nEnd = 1

\* C6 witness: a driver partial_fit interrupted during trainer.run that
\* returned after on_train_end
C6_Witness ==
    /\ outcome = Ended("partial_fit", "returned", "KeyboardInterrupt")
    /\ tlog = <<"start", "run", "shutdown">>
    /\ notif = [begin |-> 1, end |-> 1] /\ initialized_

\* C7: predict_proba result assembly: every worker contributes its output,
\* the result is the concatenation of the workers' outputs in rank order as a
\* single column, and it has as many rows as the input has over all shards.
RECURSIVE SumRows(_, _)
SumRows(rows, n) == IF n = 0 THEN 0 ELSE rows[n - 1] + SumRows(rows, n - 1)
C7_Original ==
    pout.done =>
        /\ \A i \in 1 .. Len(pout.value) : Len(pout.value[i]) = 1
        /\ \A r \in Ranks : pin.rows[r] > 0 => \E i \in 1 .. Len(pout.value) : pout.value[i][1][1] = r
        /\ \A i, j \in 1 .. Len(pout.value) : i < j => pout.value[i][1][1] <= pout.value[j][1][1]
        /\ Len(pout.value) = SumRows(pin.rows, NumWorkers)

\* C8: the pairs passed to train.report on epoch end are the non-ignored keys
\* in the order: 'epoch', the body keys ascending, the 'event_' keys
\* ascending, 'dur'; 'batches', the ignored keys and the '_best' keys dropped.
ClaimedOrder(keys, ignored) ==
    LET kept == {k \in keys : k \notin ignored /\ k # K_batches /\ ~EndsWith(k, S_best)}
        body == {k \in kept : k # K_epoch /\ k # K_dur /\ ~StartsWith(k, P_event)}
    IN  (IF K_epoch \in kept THEN <<K_epoch>> ELSE <<>>)
        \o Sorted(body)
        \o Sorted({k \in kept : StartsWith(k, P_event)})
        \o (IF K_dur \in kept THEN <<K_dur>> ELSE <<>>)
C8_Original ==
    reported.done => reported.keys = ClaimedOrder(Range(hist), rcb.keys_ignored_)

\* C9: in a worker's training run the report callback calls train.report once
\* per epoch end: after e completed epochs e calls have been made, the call
\* of an epoch comes after its training and validation passes and before the
\* next epoch begins, a run of E epochs that completes has made E calls; and
\* no call is made when no session is active.
Training(w) == w.op \in {"closure", "fit", "partial_fit", "fit_loop"}
C9_ReportOncePerEpoch ==
    \A r \in Ranks :
        LET w == west[r] IN
        /\ (Training(w) /\ w.pc \in {"loop", "train", "valid", "epoch_end"}) =>
               /\ w.reports = w.ep
               /\ w.ep <= w.epochs
               /\ w.pc # "loop" => w.ep < w.epochs
        /\ (Training(w) /\ w.pc \in {"train_end", "ret", "done"} /\ w.exc = "none") =>
               w.reports = w.epochs
        /\ (w.op = "on_epoch_end" /\ w.pc = "done") =>
               w.reports = (IF sess[r] THEN 1 ELSE 0)
        /\ (w.op # "closure" /\ ~sess[r]) => w.reports = 0

\* C9 witness: a worker's closure ran max_epochs epochs to the end and has
\* reported that many times
C9_Witness ==
    \E r \in Ranks :
        /\ west[r].op = "closure" /\ west[r].pc = "done"
        /\ west[r].epochs = MaxEpochs /\ west[r].reports = MaxEpochs

\* C10 as stated: a worker whose rank is not 0 never calls train.report
\* during its training loop (the report callback does not opt in)
C10_Original ==
    \A r \in Ranks \ {0} : Training(west[r]) => west[r].reports = 0

\* C10: on every rank the report callback is appended after the rank filter:
\* callbacks_ ends with the one "ray_train" callback (on rank 0 after the
\* user's callbacks, all kept), and a rank other than 0 has reported once for
\* each epoch it completed.
C10_EveryRankReports ==
    \A r \in Ranks :
        (west[r].initialized_ /\ west[r].op # "predict") =>
            LET cbs == west[r].callbacks_ IN
            /\ cbs # <<>> /\ cbs[Len(cbs)] = ReportCallback
            /\ CountReporters(cbs) = 1
            /\ r = 0 => SubSeq(cbs, 1, Len(cbs) - 1) = UserCallbacks
            /\ (r # 0 /\ west[r].pc = "loop") => west[r].reports = west[r].ep

\* C10 witness: the worker of rank 1 has reported from inside its closure
C10_Witness ==
    /\ west[1].op = "closure" /\ west[1].pc = "loop"
    /\ west[1].ep = 1 /\ west[1].reports = 1
    /\ CountReporters(west[1].callbacks_) = 1

\* C11 as stated: when the rank-0 entry of the run result lacks a key of the
\* bundle, the merge step fails and leaves the driver's module, optimizer,
\* criterion and history as they were before the step.
MergeFailed == dpc = "merge" /\ outcome'.kind = "raised" /\ outcome'.exc = "KeyError"
C11_Original == [][MergeFailed => drv' = drv]_vars

\* C12: a worker estimator entered (initialize, fit_loop, or fit / partial_fit
\* leading to them) with no session raises AssertionError with its module,
\* optimizer, criterion, history, callbacks, initialized flag, epoch and report
\* counters untouched (for initialize and fit_loop nothing at all changes but
\* the raise); with a session the session assertion never fails: the only
\* AssertionError is the label assertion of fit_loop. (The only other step
\* from the entry is an unrelated fault.)
Entering(w) == w.pc \in {"init", "fit", "partial_fit", "fit_loop"}
C12_WorkerOnlyGuard ==
    [][ \A r \in Ranks :
          (Entering(west[r]) /\ west'[r] # west[r] /\ west'[r].exc # "Fault"
             /\ west'[r].pc # "killed") =>
            IF ~sess[r]
            THEN /\ west'[r].pc = "raised" /\ west'[r].exc = "AssertionError"
                 /\ west'[r].st = west[r].st
                 /\ west'[r].initialized_ = west[r].initialized_
                 /\ west'[r].callbacks_ = west[r].callbacks_
                 /\ west'[r].ep = west[r].ep /\ west'[r].reports = west[r].reports
                 /\ west[r].pc \in {"init", "fit_loop"} =>
                        west'[r] = Raise(west[r], "AssertionError")
            ELSE west'[r].exc = "AssertionError" =>
                     /\ west[r].pc # "init"
                     /\ west[r].args.ty # west[r].args.vy ]_vars

\* C12 witness: fit_loop called on a worker estimator outside a session ended
\* on the assertion before any epoch
C12_Witness ==
    \E r \in Ranks :
        /\ west[r].op = "fit_loop" /\ ~sess[r]
        /\ west[r].pc = "raised" /\ west[r].exc = "AssertionError"
        /\ west[r].ep = 0 /\ west[r].st = NoState

\* C13 as stated: on a rank other than 0 the callbacks marked to run on all
\* ranks stay, in their order, followed by the report callback; on rank 0 no
\* callback is removed.
RECURSIVE MarkedOnly(_)
MarkedOnly(cbs) ==
    IF cbs = <<>> THEN <<>>
    ELSE (IF Head(cbs)[2].on_all_ranks THEN <<Head(cbs)>> ELSE <<>>) \o MarkedOnly(Tail(cbs))
C13_Original ==
    \A r \in Ranks :
        (west[r].initialized_ /\ west[r].op # "predict") =>
            west[r].callbacks_ =
                (IF r # 0 THEN MarkedOnly(UserCallbacks) ELSE UserCallbacks)
                    \o <<ReportCallback>>

\* C14: the epoch loop of the worker estimator's fit_loop, when nothing
\* interrupts it, runs E times the sequence epoch-begin (a new history
\* epoch), one training pass, one validation pass, epoch-end, each epoch
\* beginning only after the previous one ended, and leaves the loop only
\* after E epochs, E being the epochs argument or else max_epochs; the
\* validation partition is always present in a run that reaches the loop.
InLoop(w) == Training(w) /\ w.pc \in {"loop", "train", "valid", "epoch_end"}
Disturbed(w, w2) ==
    w2.pc \in {"raised", "killed"} \/ w2.exc # w.exc \/ w2.op # w.op
C14_EpochProtocol ==
    [][ \A r \in Ranks :
          LET w == west[r]
              w2 == west'[r]
          IN  (InLoop(w) /\ w2 # w /\ ~Disturbed(w, w2)) =>
                /\ w.epochs = (IF w.args.epochs # NoEpochs THEN w.args.epochs
                               ELSE MaxEpochs)
                /\ w.args.vy # NoLabel
                /\ w.ep <= w.epochs
                /\ w2.epochs = w.epochs
                /\ w.pc = "loop" /\ w.ep < w.epochs =>
                      /\ w2.pc = "train" /\ w2.ep = w.ep
                      /\ w2.st = NewEpoch(w.st)
                /\ w.pc = "loop" /\ w.ep >= w.epochs =>
                      /\ w2.pc \in {"train_end", "done"} /\ w2.ep = w.epochs
                      /\ w2.st = w.st
                /\ w.pc = "train" =>
                      /\ w2.pc = "valid" /\ w2.ep = w.ep
                      /\ w2.st = TrainPass(w.st)
                /\ w.pc = "valid" =>
                      /\ w2.pc = "epoch_end" /\ w2.ep = w.ep /\ w2.st = w.st
                /\ w.pc = "epoch_end" =>
                      /\ w2.pc = "loop" /\ w2.ep = w.ep + 1 /\ w2.st = w.st ]_vars

\* C14 witness: a closure called with epochs=None finished max_epochs epochs:
\* that many history epochs and training passes on its fresh components
C14_Witness ==
    \E r \in Ranks :
        /\ west[r].op = "closure" /\ west[r].pc = "done" /\ west[r].exc = "none"
        /\ west[r].args.epochs = NoEpochs /\ west[r].ep = MaxEpochs
        /\ west[r].st.history.data.passes = MaxEpochs
        /\ west[r].st.module_.data.passes = MaxEpochs

\* C15: a driver call that runs initialize() binds trainer_ to the configured
\* Trainer instance itself exactly when the configured trainer is an instance
\* and no trainer__* parameter is set; otherwise to a new Trainer built with
\* backend "torch", num_workers (the parameter, else the estimator's) and
\* use_gpu (the parameter, else device != "cpu"); when the resolved Trainer's
\* backend is not "torch" the call raises ValueError and leaves trainer_ and
\* initialized_ as they were (unbound, not initialized).
Initializes == dpc = "idle" /\ outcome' # outcome
                   /\ NeedsInitialize(outcome'.op, cfg, initialized_)
C15_TrainerResolution ==
    [][ Initializes =>
          LET reuse == cfg.trainer = "user" /\ cfg.kw = {}
          IN  IF reuse /\ cfg.backend # "torch"
              THEN /\ outcome' = Ended(outcome'.op, "raised", "ValueError")
                   /\ dpc' = "idle"
                   /\ trainer_' = trainer_ /\ trainer_ = Unbound
                   /\ initialized_' = initialized_ /\ ~initialized_
              ELSE /\ outcome'.kind = "running"
                   /\ initialized_'
                   /\ reuse => trainer_' = [kind |-> "user", backend |-> "torch"]
                   /\ ~reuse =>
                        trainer_' =
                          [kind |-> "built", backend |-> "torch",
                           num_workers |-> IF "num_workers" \in cfg.kw
                                           THEN KwNumWorkers ELSE NumWorkers,
                           use_gpu |-> IF "use_gpu" \in cfg.kw
                                       THEN KwUseGpu ELSE cfg.device # "cpu"] ]_vars

\* C15 witness: a Trainer instance configured together with trainer__* parameters
\* was replaced by a built one taking num_workers from the parameter
C15_Witness ==
    /\ cfg.trainer = "user" /\ cfg.backend = "other" /\ cfg.kw = {"num_workers"}
    /\ cfg.device = "cuda"
    /\ initialized_ /\ trainer_.kind = "built" /\ trainer_.num_workers = KwNumWorkers
    /\ trainer_.use_gpu
    /\ dpc = "started"

\* C16: from the entry of fit_loop to the end of the dispatch no step touches
\* the driver's module, optimizer, criterion and history or its initialized
\* flag, and once trainer.run has raised because a worker raised, the call
\* never reaches the merge step nor on_train_end: the driver's state after
\* the aborted call is the one it had before the dispatch, whatever rank 0
\* had returned.
C16_NoPartialSalvage ==
    [][ /\ dpc \in {"fit_loop", "started", "dispatch"} =>
              drv' = drv /\ initialized_' = initialized_
        /\ Has(tlog', "run_raised") =>
              /\ drv' = drv /\ initialized_' = initialized_
              /\ dpc' = "idle"
              /\ outcome'.kind = "raised" ]_vars

\* C16 witness: after an earlier successful fit, a dispatch was aborted by a
\* worker's fault although rank 0 had returned a bundle of a different
\* training state; the driver still holds the earlier fit's state
C16_Witness ==
    /\ outcome.kind = "raised" /\ outcome.exc = "Fault"
    /\ Has(tlog, "run_raised")
    /\ west[0].pc = "done" /\ ~results[0].empty
    /\ drv.module_.fmt = "bin"
    /\ results[0].f_params # drv.module_

\* C17: a get_iterator call for a mode whose cached attribute is set builds
\* nothing and returns an iterator over the cached object, whatever partition
\* it is given; when the attribute is unset it builds the iterator over the
\* partition of that call, with batch_size -1 replaced by the partition's
\* length, and caches it; the other mode's cache is never touched; a set
\* cache changes only by being reset.
ConfiguredBatch(it, training) ==
    IF training THEN (IF it.kw_train.has THEN it.kw_train.batch_size ELSE it.batch_size)
    ELSE (IF it.kw_valid.has THEN it.kw_valid.batch_size ELSE it.batch_size)
C17_IteratorCaching ==
    [][ /\ iterators'.calls = iterators.calls + 1 =>
              LET training == iterators'.last.training
                  d == iterators'.last.dataset
                  before == Cached(iterators, training)
                  after == Cached(iterators', training)
                  b == ConfiguredBatch(iterators, training)
              IN  /\ Cached(iterators', ~training) = Cached(iterators, ~training)
                  /\ before # NoIterator =>
                        /\ after = before
                        /\ iterators'.ret = [kind |-> "iter", of |-> before]
                  /\ before = NoIterator =>
                        /\ after = Iterator(training, d, IF b = -1 THEN d ELSE b)
                        /\ iterators'.ret = [kind |-> "object", of |-> after]
        /\ \A m \in BOOLEAN :
              (Cached(iterators, m) # NoIterator
                 /\ Cached(iterators', m) # Cached(iterators, m)) =>
                    /\ Cached(iterators', m) = NoIterator
                    /\ iterators'.calls = iterators.calls ]_vars

\* C17 witness: the training iterator built over a partition of length 1 is
\* returned again for a partition of length 2, while the validation iterator,
\* configured with batch_size -1, was built with the batch size 2 of its
\* partition
C17_Witness ==
    /\ iterators.last = [training |-> TRUE, dataset |-> 2]
    /\ iterators.ret.kind = "iter" /\ iterators.ret.of.dataset = 1
    /\ iterators.iterator_train_ = iterators.ret.of
    /\ iterators.kw_valid = Param(WholePartition)
    /\ iterators.iterator_valid_ = Iterator(FALSE, 2, 2)

\* C18: the estimator _get_worker_estimator returns is a new object of the
\* worker class holding every parameter of the worker's constructor with the
\* driver's value (the driver's trainer__* and other **kwargs parameters come
\* along), dataset being the driver's worker_dataset; it has none of trainer,
\* worker_dataset, num_workers and none of the fitted attributes; the driver
\* object is as it was.
C18_WorkerEstimatorDerivation ==
    derived.est # "none" =>
        LET self == derived.heap[SelfRef]
            est == derived.heap[derived.est]
        IN  /\ derived.est # SelfRef
            /\ self = derived.before
            /\ self.class = "RayTrainNeuralNet"
            /\ est.class = "_WorkerRayTrainNeuralNet"
            /\ \A n \in (WorkerSignature \ {"self", "kwargs", "dataset"}) \cup self.kw :
                  n \in DOMAIN est.dict /\ est.dict[n] = self.dict[n]
            /\ est.dict["dataset"] = self.dict["worker_dataset"]
            /\ (DOMAIN est.dict) \cap {"trainer", "worker_dataset", "num_workers"} = {}
            /\ (DOMAIN est.dict) \cap FittedAttributes = {}
            /\ est.dict["initialized_"] = "False"

\* C18 witness: derived from a fitted driver whose dataset and worker_dataset
\* differ and which carries a trainer__ parameter
C18_Witness ==
    /\ derived.est = EstRef
    /\ derived.before.dict["initialized_"] = "True"
    /\ derived.before.dict["dataset"] = "UserDataset"
    /\ derived.heap[EstRef].dict["dataset"] = "UserWorkerDataset"
    /\ "trainer__logdir" \in derived.before.kw
    /\ "trainer_" \in DOMAIN derived.heap[SelfRef].dict

\* no step of a predict_proba call changes the driver's fitted state, its
\* configuration, its initialized flag or the trainer bound to it
PredictReadOnly ==
    call.op = "predict_proba" \/ call'.op = "predict_proba" =>
        /\ drv' = drv
        /\ cfg' = cfg
        /\ initialized_' = initialized_
        /\ trainer_' = trainer_
\* the closure of predict_proba has run on rank r
Reconstructs(r) ==
    /\ west[r].op = "predict" /\ west[r].pc = "pred"
    /\ west'[r].op = "predict" /\ west'[r].pc # "pred"

C20_CancelledDispatch ==
    [][ /\ (/\ dpc \in {"started", "dispatch"}
            /\ call.op \in {"fit", "partial_fit"}
            /\ outcome'.exc = "KeyboardInterrupt") =>
               /\ tlog' = Append(tlog, "shutdown")
               /\ Count(tlog', "shutdown") = 1
               /\ ~live'
               /\ dpc' = "pf_end"
               /\ drv' = drv
               /\ initialized_'
               /\ notif' = [begin |-> 1, end |-> 0]
        /\ (/\ dpc = "pf_end" /\ dpc' # "pf_end"
            /\ outcome.exc = "KeyboardInterrupt") =>
               /\ dpc' = "idle"
               /\ outcome' = Ended(call.op, "returned", "KeyboardInterrupt")
               /\ drv' = drv
               /\ tlog' = tlog
               /\ ~live'
               /\ initialized_'
               /\ notif' = [begin |-> 1, end |-> 1]
        /\ (dpc = "pf_end" /\ dpc' = "pf_end") => drv' = drv /\ notif' = notif ]_vars

\* C20 witness: a fit after an earlier successful fit was interrupted during
\* trainer.run when rank 0 had already returned the bundle of a further
\* training; the call returned, the driver holds the earlier fit's state
C20_Witness ==
    /\ outcome = Ended("fit", "returned", "KeyboardInterrupt")
    /\ tlog = <<"start", "run", "shutdown">>
    /\ west[0].pc = "done" /\ ~results[0].empty
    /\ drv.module_.fmt = "bin"
    /\ results[0].f_params # drv.module_
    /\ notif.end = 1 /\ initialized_ /\ ~live

====
